---- MODULE Spec2Model ----
(***************************************************************************)
(* A model of the notebook dspy_multi_agent.ipynb: the data-loading cell,  *)
(* the two optimizer runs, the evaluator calls, the selection of AGENTS    *)
(* and the local class Aggregator with its method forward.                 *)
(*                                                                         *)
(* Temperatures are written in tenths (0.0 is 0, 0.7 is 7).                *)
(* The library calls (HotPotQA, BootstrapFewShotWithRandomSearch.compile,  *)
(* Evaluate, dspy.context, flatten, deduplicate, the agents and the        *)
(* aggregation predictor) are modelled at the place the notebook calls     *)
(* them, by what the call hands back to the notebook.                      *)
(***************************************************************************)
EXTENDS Integers, Sequences, FiniteSets, TLC

(* ------------------------------ bounds --------------------------------- *)

\* threads the evaluator runs forward on at the same time (num_threads=8 scaled)
NumThreads == 2
\* the most observations one agent run records (ReAct's hops)
MaxHops == 1
\* candidate programs the optimizer scores (num_candidate_programs=20 scaled)
NumCandidatePrograms == 6
\* the best validation score a candidate can get (50 valset examples scaled)
MaxScore == 1

(* ------------------------- program constants --------------------------- *)

\* Aggregator.__init__(self, temperature=0.0)
DefaultTemperature == 0
\* optimized_aggregator2.temperature = 0.7
HighTemperature == 7
\* candidate_programs[:5]
TopK == 5
\* HotPotQA(train_size=200, ...)
TrainSize == 200
\* HotPotQA(..., dev_size=300, ...)
DevSize == 300
\* dataset.train[0:150]
TrainStop == 150
\* dataset.train[150:200]
ValStart == 150
ValStop == 200

Threads == 1..NumThreads
Questions == {"q1", "q2"}
Passages == {"p1", "p2"}
Answers == {"a1", "a2"}
Errors == {"RateLimitError", "Timeout"}

VARIABLES
  lm,             \* the globally configured language model (dspy.configure)
  AGENTS,         \* the list of agent programs forward runs
  self,           \* the Aggregator instance whose forward the threads call
  pc,             \* per thread: where its call of forward is
  question,       \* per thread: forward's argument
  stack,          \* per thread: the overrides dspy.context has pushed
  preds,          \* per thread: forward's local list preds
  context,        \* per thread: forward's local context
  result,         \* per thread: what forward returned
  error,          \* per thread: what forward raised
  agentCalls,     \* per thread: the agent calls it made, in order
  aggregateCalls  \* per thread: the self.aggregate calls it made, in order

VARIABLES
  cell,                   \* the next code cell to run
  dataset,                \* HotPotQA(...): its train and dev splits
  trainset, valset, devset,
  agent,                  \* dspy.ReAct(...)
  evaluate,               \* the Evaluate object
  optimized_react,        \* tp.compile(agent, ...)
  aggregator, optimized_aggregator, optimized_aggregator2,
  calls                   \* the optimizer and evaluator calls made, in order

fwVars == <<self, pc, question, stack, preds, context, result,
            error, agentCalls, aggregateCalls>>
nbVars == <<cell, dataset, trainset, valset, devset, agent, evaluate,
            optimized_react, aggregator, optimized_aggregator,
            optimized_aggregator2, calls>>
vars == <<lm, AGENTS, fwVars, nbVars>>

None == "None"

(* ------------------------- language models ----------------------------- *)

gpt3 == [model |-> "gpt-3.5-turbo", max_tokens |-> 4000, kwargs |-> {}]

\* gpt3.copy(temperature=t): the same model with the keyword overridden
LmCopy(base, t) ==
  [base EXCEPT !.kwargs =
     {kv \in base.kwargs : kv[1] # "temperature"} \cup {<<"temperature", t>>}]

\* settings kept in one place for all threads: any thread's override shows
SharedLmInEffect(t) ==
  IF \E u \in Threads : stack[u] # <<>>
  THEN LET u == CHOOSE v \in Threads : stack[v] # <<>>
       IN stack[u][Len(stack[u])]
  ELSE lm

\* with dspy.context(lm=...): the override is in effect for the thread that
\* entered the block, until it leaves it
LmInEffect(t) ==
  IF stack[t] = <<>> THEN lm ELSE stack[t][Len(stack[t])]

Pop(s) == SubSeq(s, 1, Len(s) - 1)

\* the model forward puts in effect: gpt3.copy(temperature=self.temperature)
AgentLm(inst) == LmCopy(gpt3, inst.temperature)

Temperature(m) == {kv[2] : kv \in {x \in m.kwargs : x[1] = "temperature"}}

(* ----------------------- flatten, deduplicate -------------------------- *)

RECURSIVE flatten(_)
flatten(L) ==
  IF L = <<>> THEN <<>> ELSE Head(L) \o flatten(Tail(L))

RECURSIVE DedupFrom(_, _)
DedupFrom(seq, seen) ==
  IF seq = <<>> THEN <<>>
  ELSE IF Head(seq) \in seen THEN DedupFrom(Tail(seq), seen)
  ELSE <<Head(seq)>> \o DedupFrom(Tail(seq), seen \cup {Head(seq)})

deduplicate(seq) == DedupFrom(seq, {})

\* the evidence flattened but not deduplicated
ContextWithRepeats(ps) ==
  flatten([i \in 1..Len(ps) |-> flatten(ps[i].observations)])

\* deduplicate(flatten([flatten(p.observations) for p in preds]))
ContextOf(ps) ==
  deduplicate(flatten([i \in 1..Len(ps) |-> flatten(ps[i].observations)]))

(* ------------------------- what an agent records ----------------------- *)

\* dspy.Retrieve(k=1): every observation is a list of one passage
RECURSIVE ObsOfLen(_)
ObsOfLen(n) ==
  IF n = 0 THEN {<<>>}
  ELSE {Append(o, <<p>>) : o \in ObsOfLen(n - 1), p \in Passages}

RECURSIVE ObsUpTo(_)
ObsUpTo(n) ==
  IF n = 0 THEN ObsOfLen(0) ELSE ObsOfLen(n) \cup ObsUpTo(n - 1)

Observations == ObsUpTo(MaxHops)

\* an agent that retrieves once, with the question as its query
Retrieved(q) == {<< <<IF q = "q1" THEN "p1" ELSE "p2">> >>}

Program(i) == [kind |-> "ReAct", seed |-> i]

(* --------------------------- the notebook ------------------------------ *)

Undefined == [kind |-> "undefined"]
NoLm == [model |-> "None", max_tokens |-> 0, kwargs |-> {}]

\* the state before the first cell has run
NotebookStart ==
  /\ cell = "setup"
  /\ dataset = [train |-> <<>>, dev |-> <<>>]
  /\ trainset = <<>>
  /\ valset = <<>>
  /\ devset = <<>>
  /\ agent = Undefined
  /\ evaluate = [devset |-> <<>>, metric |-> None, num_threads |-> 0]
  /\ optimized_react = [candidate_programs |-> <<>>]
  /\ aggregator = Undefined
  /\ optimized_aggregator = Undefined
  /\ optimized_aggregator2 = Undefined
  /\ calls = <<>>

\* no call of forward is under way
ForwardStart ==
  /\ self = Undefined
  /\ pc = [t \in Threads |-> "idle"]
  /\ question = [t \in Threads |-> None]
  /\ stack = [t \in Threads |-> <<>>]
  /\ preds = [t \in Threads |-> <<>>]
  /\ context = [t \in Threads |-> <<>>]
  /\ result = [t \in Threads |-> None]
  /\ error = [t \in Threads |-> None]
  /\ agentCalls = [t \in Threads |-> <<>>]
  /\ aggregateCalls = [t \in Threads |-> <<>>]

Init ==
  /\ lm = NoLm
  /\ AGENTS = <<>>
  /\ NotebookStart
  /\ ForwardStart

\* a Python slice s[lo:hi] with 0 <= lo, 0 <= hi
Min(a, b) == IF a < b THEN a ELSE b
Slice(s, lo, hi) ==
  IF Min(hi, Len(s)) <= lo THEN <<>> ELSE SubSeq(s, lo + 1, Min(hi, Len(s)))

Example(split, i) == [split |-> split, index |-> i, input_keys |-> {}]
with_inputs(x, key) == [x EXCEPT !.input_keys = {key}]

\* HotPotQA(train_seed=1, train_size=200, eval_seed=2023, dev_size=300, test_size=0)
HotPotQA(train_size, dev_size) ==
  [train |-> [i \in 1..train_size |-> Example("train", i)],
   dev |-> [i \in 1..dev_size |-> Example("dev", i)]]

Inputs(xs) == [i \in 1..Len(xs) |-> with_inputs(xs[i], "question")]

\* trainset = [x.with_inputs('question') for x in dataset.train[0:150]]
TrainsetOf(d) == Inputs(Slice(d.train, 0, TrainStop))
\* a validation slice that starts one example early
ValsetFromLastTrain(d) == Inputs(Slice(d.train, ValStart - 1, ValStop))
\* valset = [x.with_inputs('question') for x in dataset.train[150:200]]
ValsetOf(d) == Inputs(Slice(d.train, ValStart, ValStop))
\* devset = [x.with_inputs('question') for x in dataset.dev]
DevsetOf(d) == Inputs(d.dev)

\* dspy.configure(lm=gpt3, rm=colbert)
Setup ==
  /\ cell = "setup"
  /\ lm' = gpt3
  /\ cell' = "load"
  /\ UNCHANGED <<AGENTS, fwVars, dataset, trainset, valset, devset, agent,
                 evaluate, optimized_react, aggregator, optimized_aggregator,
                 optimized_aggregator2, calls>>

LoadData ==
  /\ cell = "load"
  /\ dataset' = HotPotQA(TrainSize, DevSize)
  /\ trainset' = TrainsetOf(dataset')
  /\ valset' = ValsetOf(dataset')
  /\ devset' = DevsetOf(dataset')
  /\ cell' = "agent"
  /\ UNCHANGED <<lm, AGENTS, fwVars, agent, evaluate, optimized_react,
                 aggregator, optimized_aggregator, optimized_aggregator2,
                 calls>>

\* agent = dspy.ReAct("question -> answer", tools=[dspy.Retrieve(k=1)])
MakeAgent ==
  /\ cell = "agent"
  /\ agent' = Program(0)
  /\ cell' = "evaluate_agent"
  /\ UNCHANGED <<lm, AGENTS, fwVars, dataset, trainset, valset, devset,
                 evaluate, optimized_react, aggregator, optimized_aggregator,
                 optimized_aggregator2, calls>>

\* Evaluate(devset=devset, metric=..., num_threads=8, ...)
NewEvaluate ==
  [devset |-> devset, metric |-> "answer_exact_match", num_threads |-> 8]

\* evaluate(program): the evaluator scores the program on its own devset
EvaluateCall(ev, program) ==
  [op |-> "evaluate", program |-> program, trainset |-> <<>>,
   valset |-> <<>>, devset |-> ev.devset]

\* tp.compile(student, trainset=..., valset=...)
CompileCall(student, ts, vs) ==
  [op |-> "compile", program |-> student, trainset |-> ts, valset |-> vs,
   devset |-> <<>>]

EvaluateAgent ==
  /\ cell = "evaluate_agent"
  /\ evaluate' = NewEvaluate
  /\ calls' = Append(calls, EvaluateCall(evaluate', agent))
  /\ cell' = "compile_react"
  /\ UNCHANGED <<lm, AGENTS, fwVars, dataset, trainset, valset, devset, agent,
                 optimized_react, aggregator, optimized_aggregator,
                 optimized_aggregator2>>

\* the candidates in decreasing score, as compile attaches them to its result:
\* tuples whose first element is the score and whose last is the program
RECURSIVE InsertByScore(_, _)
InsertByScore(x, sorted) ==
  IF sorted = <<>> THEN <<x>>
  ELSE IF x[1] > Head(sorted)[1] THEN <<x>> \o sorted
  ELSE <<Head(sorted)>> \o InsertByScore(x, Tail(sorted))

RECURSIVE SortedByScore(_)
SortedByScore(xs) ==
  IF xs = <<>> THEN <<>>
  ELSE InsertByScore(xs[Len(xs)], SortedByScore(SubSeq(xs, 1, Len(xs) - 1)))

Candidates(scores) ==
  SortedByScore([i \in 1..NumCandidatePrograms |-> <<scores[i], i, Program(i)>>])

\* the arguments of the first compile call
ReactCompile == CompileCall(agent, trainset, valset)

CompileReact ==
  /\ cell = "compile_react"
  /\ \E scores \in [1..NumCandidatePrograms -> 0..MaxScore] :
       optimized_react' = [candidate_programs |-> Candidates(scores)]
  /\ calls' = Append(calls, ReactCompile)
  /\ cell' = "evaluate_react"
  /\ UNCHANGED <<lm, AGENTS, fwVars, dataset, trainset, valset, devset, agent,
                 evaluate, aggregator, optimized_aggregator,
                 optimized_aggregator2>>

\* the program compile returns: its best candidate
Best(o) == o.candidate_programs[1][Len(o.candidate_programs[1])]

EvaluateReact ==
  /\ cell = "evaluate_react"
  /\ calls' = Append(calls, EvaluateCall(evaluate, Best(optimized_react)))
  /\ cell' = "define_aggregator"
  /\ UNCHANGED <<lm, AGENTS, fwVars, dataset, trainset, valset, devset, agent,
                 evaluate, optimized_react, aggregator, optimized_aggregator,
                 optimized_aggregator2>>

\* the last five candidates instead of the first five
SelectLastAgents(cands) ==
  [i \in 1..Len(Slice(cands, Len(cands) - TopK, Len(cands))) |->
     Slice(cands, Len(cands) - TopK, Len(cands))[i][3]]

\* AGENTS = [x[-1] for x in optimized_react.candidate_programs[:5]]
SelectAgents(cands) ==
  [i \in 1..Len(Slice(cands, 0, TopK)) |->
     Slice(cands, 0, TopK)[i][Len(Slice(cands, 0, TopK)[i])]]

DefineAggregator ==
  /\ cell = "define_aggregator"
  /\ AGENTS' = SelectAgents(optimized_react.candidate_programs)
  /\ cell' = "evaluate_aggregator"
  /\ UNCHANGED <<lm, fwVars, dataset, trainset, valset, devset, agent,
                 evaluate, optimized_react, aggregator, optimized_aggregator,
                 optimized_aggregator2, calls>>

\* Aggregator(temperature=0.0)
Aggregator(temperature) ==
  [kind |-> "Aggregator", temperature |-> temperature, demos |-> 0]

\* aggregator = Aggregator(); evaluate(aggregator)
EvaluateAggregator ==
  /\ cell = "evaluate_aggregator"
  /\ aggregator' = Aggregator(DefaultTemperature)
  /\ calls' = Append(calls, EvaluateCall(evaluate, aggregator'))
  /\ cell' = "compile_aggregator"
  /\ UNCHANGED <<lm, AGENTS, fwVars, dataset, trainset, valset, devset, agent,
                 evaluate, optimized_react, optimized_aggregator,
                 optimized_aggregator2>>

\* the second optimizer run selecting its candidates on devset
AggregatorCompileOnDevset == CompileCall(aggregator, trainset, devset)

\* the arguments of the second compile call
AggregatorCompile == CompileCall(aggregator, trainset, valset)

\* optimized_aggregator = tp.compile(aggregator, trainset=trainset, valset=valset):
\* a copy of the student with bootstrapped demonstrations
CompileAggregator ==
  /\ cell = "compile_aggregator"
  /\ \E d \in 1..2 : optimized_aggregator' = [aggregator EXCEPT !.demos = d]
  /\ calls' = Append(calls, AggregatorCompile)
  /\ cell' = "evaluate_aggregator2"
  /\ UNCHANGED <<lm, AGENTS, fwVars, dataset, trainset, valset, devset, agent,
                 evaluate, optimized_react, aggregator, optimized_aggregator2>>

\* optimized_aggregator2 = optimized_aggregator.deepcopy()
\* optimized_aggregator2.temperature = 0.7; evaluate(optimized_aggregator2)
EvaluateAggregator2 ==
  /\ cell = "evaluate_aggregator2"
  /\ optimized_aggregator2' =
       [optimized_aggregator EXCEPT !.temperature = HighTemperature]
  /\ calls' = Append(calls, EvaluateCall(evaluate, optimized_aggregator2'))
  /\ cell' = "done"
  /\ UNCHANGED <<lm, AGENTS, fwVars, dataset, trainset, valset, devset, agent,
                 evaluate, optimized_react, aggregator, optimized_aggregator>>

\* the cells, run in order
Next ==
  \/ Setup
  \/ LoadData
  \/ MakeAgent
  \/ EvaluateAgent
  \/ CompileReact
  \/ EvaluateReact
  \/ DefineAggregator
  \/ EvaluateAggregator
  \/ CompileAggregator
  \/ EvaluateAggregator2

Spec == Init /\ [][Next]_vars

(* ---------------------------- forward ---------------------------------- *)

InitForward ==
  /\ lm = gpt3
  /\ AGENTS = [i \in 1..TopK |-> Program(i)]
  /\ NotebookStart
  /\ self \in {Aggregator(DefaultTemperature), Aggregator(HighTemperature)}
  /\ pc = [t \in Threads |-> "idle"]
  /\ question = [t \in Threads |-> None]
  /\ stack = [t \in Threads |-> <<>>]
  /\ preds = [t \in Threads |-> <<>>]
  /\ context = [t \in Threads |-> <<>>]
  /\ result = [t \in Threads |-> None]
  /\ error = [t \in Threads |-> None]
  /\ agentCalls = [t \in Threads |-> <<>>]
  /\ aggregateCalls = [t \in Threads |-> <<>>]

\* def forward(self, question): with dspy.context(lm=gpt3.copy(...)):
Enter(t, q) ==
  /\ pc[t] = "idle"
  /\ question' = [question EXCEPT ![t] = q]
  /\ stack' = [stack EXCEPT ![t] = Append(@, AgentLm(self))]
  /\ pc' = [pc EXCEPT ![t] = "agents"]
  /\ UNCHANGED <<lm, AGENTS, nbVars, self, preds, context, result, error,
                 agentCalls, aggregateCalls>>

\* the agent the comprehension calls next
NextAgent(t) == Len(preds[t]) + 1

\* a comprehension that stops before the last agent
AllButLastAgentRun(t) == NextAgent(t) >= Len(AGENTS)

\* for agent in AGENTS: the comprehension is over
AllAgentsRun(t) == NextAgent(t) > Len(AGENTS)

AgentCall(t, obs, e) ==
  [agent |-> AGENTS[NextAgent(t)], question |-> question[t],
   lm |-> LmInEffect(t), observations |-> obs, raised |-> e]

\* preds = [agent(question=question) for agent in AGENTS]: one agent returns
AgentReturn(t, obs) ==
  /\ pc[t] = "agents"
  /\ ~AllAgentsRun(t)
  /\ preds' = [preds EXCEPT ![t] = Append(@, [observations |-> obs])]
  /\ agentCalls' = [agentCalls EXCEPT ![t] = Append(@, AgentCall(t, obs, None))]
  /\ UNCHANGED <<lm, AGENTS, nbVars, self, pc, question, stack, context, result,
                 error, aggregateCalls>>

\* a forward that catches the agent's error and goes on with an empty prediction
AgentRaiseCaught(t, e) ==
  /\ pc[t] = "agents"
  /\ ~AllAgentsRun(t)
  /\ agentCalls' = [agentCalls EXCEPT ![t] = Append(@, AgentCall(t, <<>>, e))]
  /\ preds' = [preds EXCEPT ![t] = Append(@, [observations |-> <<>>])]
  /\ UNCHANGED <<lm, AGENTS, nbVars, self, pc, question, stack, context,
                 result, error, aggregateCalls>>

\* one agent raises: the comprehension and the with block are left
AgentRaise(t, e) ==
  /\ pc[t] = "agents"
  /\ ~AllAgentsRun(t)
  /\ agentCalls' = [agentCalls EXCEPT ![t] = Append(@, AgentCall(t, <<>>, e))]
  /\ stack' = [stack EXCEPT ![t] = Pop(@)]
  /\ error' = [error EXCEPT ![t] = e]
  /\ pc' = [pc EXCEPT ![t] = "raised"]
  /\ UNCHANGED <<lm, AGENTS, nbVars, self, question, preds, context, result,
                 aggregateCalls>>

\* the aggregation step indented into the with block
LeaveContextLate(t) ==
  /\ pc[t] = "agents"
  /\ AllAgentsRun(t)
  /\ context' = [context EXCEPT ![t] = ContextOf(preds[t])]
  /\ pc' = [pc EXCEPT ![t] = "aggregate"]
  /\ UNCHANGED <<lm, AGENTS, nbVars, self, question, stack, preds, result,
                 error, agentCalls, aggregateCalls>>

\* context = deduplicate(flatten(...)), then the with block ends
LeaveContext(t) ==
  /\ pc[t] = "agents"
  /\ AllAgentsRun(t)
  /\ context' = [context EXCEPT ![t] = ContextOf(preds[t])]
  /\ stack' = [stack EXCEPT ![t] = Pop(@)]
  /\ pc' = [pc EXCEPT ![t] = "aggregate"]
  /\ UNCHANGED <<lm, AGENTS, nbVars, self, question, preds, result, error,
                 agentCalls, aggregateCalls>>

AggregateCall(t, a, e) ==
  [context |-> context[t], question |-> question[t],
   lm |-> LmInEffect(t), answer |-> a, raised |-> e]

\* return self.aggregate(context=context, question=question)
\* (the words "ValueError: not enough values to unpack ..." that follow the
\* closing parenthesis in the cell are a pasted error message, not a statement)
AggregateReturn(t, a) ==
  /\ pc[t] = "aggregate"
  /\ aggregateCalls' =
       [aggregateCalls EXCEPT ![t] = Append(@, AggregateCall(t, a, None))]
  /\ result' = [result EXCEPT ![t] = a]
  /\ pc' = [pc EXCEPT ![t] = "returned"]
  /\ UNCHANGED <<lm, AGENTS, nbVars, self, question, stack, preds, context, error,
                 agentCalls>>

AggregateRaise(t, e) ==
  /\ pc[t] = "aggregate"
  /\ aggregateCalls' =
       [aggregateCalls EXCEPT ![t] = Append(@, AggregateCall(t, None, e))]
  /\ error' = [error EXCEPT ![t] = e]
  /\ pc' = [pc EXCEPT ![t] = "raised"]
  /\ UNCHANGED <<lm, AGENTS, nbVars, self, question, stack, preds, context, result,
                 agentCalls>>

\* the evaluator's threads, each calling forward on a question of its own
NextThreads ==
  \E t \in Threads :
    \/ \E q \in Questions : Enter(t, q)
    \/ \E obs \in Retrieved(question[t]) : AgentReturn(t, obs)
    \/ \E e \in Errors : AgentRaise(t, e)
    \/ LeaveContext(t)
    \/ \E a \in Answers : AggregateReturn(t, a)
    \/ \E e \in Errors : AggregateRaise(t, e)

SpecThreads == InitForward /\ [][NextThreads]_vars

\* one call of forward, the agents recording any observations
NextForward ==
  \/ \E q \in Questions : Enter(1, q)
  \/ \E obs \in Observations : AgentReturn(1, obs)
  \/ LeaveContext(1)
  \/ \E a \in Answers : AggregateReturn(1, a)

SpecForward == InitForward /\ [][NextForward]_vars

(* ------------------------------ claims --------------------------------- *)

Range(f) == {f[i] : i \in DOMAIN f}
Finished(t) == pc[t] \in {"returned", "raised"}
AgentFailed(t) == \E i \in DOMAIN agentCalls[t] : agentCalls[t][i].raised # None

\* every agent of AGENTS was called exactly once, in AGENTS order, with the
\* thread's question, and returned
RanAllAgents(t) ==
  /\ Len(agentCalls[t]) = Len(AGENTS)
  /\ \A i \in DOMAIN agentCalls[t] :
       /\ agentCalls[t][i].agent = AGENTS[i]
       /\ agentCalls[t][i].question = question[t]
       /\ agentCalls[t][i].raised = None
  /\ \A a \in Range(AGENTS) :
       Cardinality({i \in DOMAIN agentCalls[t] : agentCalls[t][i].agent = a}) = 1

\* C1: in a call of forward in which no agent call fails, every agent of
\* AGENTS is called exactly once with forward's question, self.aggregate is
\* called exactly once with that question and only after all agent calls
\* have returned, and forward returns what the aggregation call returned.
C1_AgentsThenAggregate ==
  \A t \in Threads :
    /\ Len(aggregateCalls[t]) <= 1
    /\ aggregateCalls[t] # <<>> => RanAllAgents(t)
    /\ (pc[t] = "aggregate" /\ ~AgentFailed(t)) => RanAllAgents(t)
    /\ pc[t] = "returned" =>
         /\ RanAllAgents(t)
         /\ Len(aggregateCalls[t]) = 1
         /\ aggregateCalls[t][1].question = question[t]
         /\ aggregateCalls[t][1].raised = None
         /\ result[t] = aggregateCalls[t][1].answer

C1_Witness ==
  \E t \in Threads :
    /\ pc[t] = "returned"
    /\ Len(agentCalls[t]) = TopK
    /\ result[t] \in Answers

\* the places <<agent, observation, passage>> at which the agents of the
\* call recorded passage p
Occurrences(t, p) ==
  {<<i, j, k>> \in (1..Len(agentCalls[t])) \X (1..MaxHops) \X (1..1) :
     /\ j <= Len(agentCalls[t][i].observations)
     /\ k <= Len(agentCalls[t][i].observations[j])
     /\ agentCalls[t][i].observations[j][k] = p}

ObservedPassages(t) == {p \in Passages : Occurrences(t, p) # {}}

Before(x, y) ==
  \/ x[1] < y[1]
  \/ x[1] = y[1] /\ x[2] < y[2]
  \/ x[1] = y[1] /\ x[2] = y[2] /\ x[3] < y[3]

FirstOccurrence(t, p) ==
  CHOOSE x \in Occurrences(t, p) :
    \A y \in Occurrences(t, p) : x = y \/ Before(x, y)

Loaded == cell \notin {"setup", "load"}
Index(xs) == {xs[i].index : i \in DOMAIN xs}

\* C3: after the data-loading cell trainset has 150 examples, valset 50 and
\* devset 300; trainset and valset come from disjoint index ranges of the
\* 200 training examples and cover them all, devset comes from the dev split
\* only, and 'question' is the only input field of every example.
C3_DataSplits ==
  Loaded =>
    /\ Len(trainset) = 150
    /\ Len(valset) = 50
    /\ Len(devset) = 300
    /\ Len(dataset.train) = 200
    /\ \A i \in DOMAIN trainset : trainset[i].split = "train"
    /\ \A i \in DOMAIN valset : valset[i].split = "train"
    /\ \A i \in DOMAIN devset : devset[i].split = "dev"
    /\ Index(trainset) \cap Index(valset) = {}
    /\ Index(trainset) \cup Index(valset) = 1..200
    /\ Cardinality(Index(trainset)) = 150
    /\ Cardinality(Index(valset)) = 50
    /\ \A i \in DOMAIN trainset :
         trainset[i] = with_inputs(dataset.train[trainset[i].index], "question")
    /\ \A i \in DOMAIN valset :
         valset[i] = with_inputs(dataset.train[valset[i].index], "question")
    /\ \A i \in DOMAIN devset : devset[i].input_keys = {"question"}

C3_Witness ==
  /\ cell = "agent"
  /\ trainset[150].index = 150
  /\ valset[1].index = 151
  /\ devset[300].split = "dev"

\* the dataset splits the examples of a list were loaded from; examples of
\* different splits are different examples
SplitsOf(xs) == {xs[i].split : i \in DOMAIN xs}

\* C4: with the cells run in order, both optimizer runs get trainset to
\* bootstrap from and valset to select on, every evaluate call scores on
\* devset, devset is never handed to an optimizer, and no trainset or valset
\* example is used in an evaluation.
C4_OptimizeOnTrainValEvaluateOnDev ==
  /\ \A i \in DOMAIN calls :
       /\ calls[i].op = "compile" =>
            /\ calls[i].trainset = trainset /\ trainset # <<>>
            /\ calls[i].valset = valset /\ valset # <<>>
       /\ calls[i].op = "evaluate" =>
            /\ calls[i].devset = devset /\ devset # <<>>
  /\ calls # <<>> =>
       /\ SplitsOf(trainset) = {"train"}
       /\ SplitsOf(valset) = {"train"}
       /\ SplitsOf(devset) = {"dev"}

C4_Witness ==
  /\ cell = "done"
  /\ Cardinality({i \in DOMAIN calls : calls[i].op = "compile"}) = 2
  /\ Cardinality({i \in DOMAIN calls : calls[i].op = "evaluate"}) = 4

AgentsChosen ==
  cell \in {"evaluate_aggregator", "compile_aggregator",
            "evaluate_aggregator2", "done"}
CandidatePrograms ==
  {optimized_react.candidate_programs[i][3] :
     i \in DOMAIN optimized_react.candidate_programs}
ScoreOf(program) ==
  LET i == CHOOSE j \in DOMAIN optimized_react.candidate_programs :
             optimized_react.candidate_programs[j][3] = program
  IN optimized_react.candidate_programs[i][1]

\* C5: AGENTS holds exactly five programs, all of them candidates of the
\* agent's optimization, and no candidate outside AGENTS has a strictly
\* higher validation score than one inside.
C5_AgentsAreTheFiveBest ==
  AgentsChosen =>
    /\ Len(AGENTS) = 5
    /\ Cardinality(Range(AGENTS)) = 5
    /\ Range(AGENTS) \subseteq CandidatePrograms
    /\ \A a \in Range(AGENTS) : \A c \in CandidatePrograms \ Range(AGENTS) :
         ScoreOf(c) <= ScoreOf(a)

C5_Witness ==
  /\ AgentsChosen
  /\ \E c \in CandidatePrograms \ Range(AGENTS) :
       \A a \in Range(AGENTS) : ScoreOf(c) < ScoreOf(a)
  /\ AGENTS[1] # Program(1)

\* C6: when an agent call raises, forward raises that same error, runs no
\* further agent, never calls self.aggregate and returns nothing; an answer
\* is returned only after all agents have returned.
C6_AgentFailureFailsForward ==
  \A t \in Threads :
    /\ \A i \in DOMAIN agentCalls[t] :
         agentCalls[t][i].raised # None =>
           /\ i = Len(agentCalls[t])
           /\ pc[t] = "raised"
           /\ error[t] = agentCalls[t][i].raised
           /\ aggregateCalls[t] = <<>>
           /\ result[t] = None
    /\ result[t] # None =>
         /\ Len(preds[t]) = Len(AGENTS)
         /\ ~AgentFailed(t)

C6_Witness ==
  \E t \in Threads :
    /\ pc[t] = "raised"
    /\ Len(agentCalls[t]) = 2
    /\ agentCalls[t][2].raised = "Timeout"
    /\ error[t] = "Timeout"

\* C7: every Aggregator instance the notebook evaluates or optimizes runs
\* its agents at a temperature strictly above 0.
C7_AgentsRunAtHighTemperature ==
  \A i \in DOMAIN calls :
    calls[i].program.kind = "Aggregator" =>
      /\ Temperature(AgentLm(calls[i].program)) # {}
      /\ \A x \in Temperature(AgentLm(calls[i].program)) : x > 0

\* C8: the model with temperature=self.temperature is in effect during the
\* agent calls only; the aggregation call uses the globally configured
\* model, and once forward has returned or raised the model in effect is
\* again gpt3, as dspy.configure set it.
C8_OverrideScopedToAgentRuns ==
  /\ lm = gpt3
  /\ \A t \in Threads :
       /\ \A i \in DOMAIN agentCalls[t] :
            /\ agentCalls[t][i].lm = AgentLm(self)
            /\ Temperature(agentCalls[t][i].lm) = {self.temperature}
       /\ \A i \in DOMAIN aggregateCalls[t] :
            aggregateCalls[t][i].lm = gpt3
       /\ pc[t] = "aggregate" => LmInEffect(t) = gpt3
       /\ Finished(t) => (stack[t] = <<>> /\ LmInEffect(t) = gpt3)

C8_Witness ==
  \E t, u \in Threads :
    /\ pc[t] = "returned"
    /\ Len(agentCalls[t]) = TopK
    /\ agentCalls[t][1].lm # gpt3
    /\ aggregateCalls[t][1].lm = gpt3
    /\ pc[u] = "raised"
    /\ agentCalls[u] # <<>>
    /\ LmInEffect(u) = gpt3

\* thread u takes no part in the step
Idles(u) ==
  /\ pc'[u] = pc[u]
  /\ agentCalls'[u] = agentCalls[u]
  /\ aggregateCalls'[u] = aggregateCalls[u]

OwnEvidence(t) ==
  ContextOf([i \in 1..Len(agentCalls[t]) |->
               [observations |-> agentCalls[t][i].observations]])

====
